---- MODULE Spec2Model ----
(***************************************************************************)
(* Model of src/app.py, the Streamlit "AI Story Maker".                    *)
(*                                                                         *)
(* The script is executed top to bottom once per user interaction (a       *)
(* "script run").  What survives between runs is the st.cache_resource     *)
(* entry of load_story_generator (process wide), st.session_state and the  *)
(* values of the widgets.  Each action below is one complete script run,   *)
(* triggered by one interaction.  Texts are sequences of characters;       *)
(* the temperature is kept in tenths (5..15 stands for 0.5..1.5).          *)
(***************************************************************************)
EXTENDS Integers, Sequences, FiniteSets, TLC

VARIABLES cached,         \* st.cache_resource entry: NoProvider or the pipeline instance
          constructions,  \* number of pipeline objects built so far in this process
          max_length,     \* value of the "Story Length" slider
          creativity,     \* value of the "Creativity" slider, in tenths
          prompt,         \* value of the text area
          session_state,  \* st.session_state: a function whose only possible key is "story"
          run,            \* what the most recent script run did and put on the page
          lastOk,         \* history: <<t>> for the text of the latest successful provider call
          failedEarlier   \* history: a provider call failed in a run before the latest one

vars == <<cached, constructions, max_length, creativity, prompt, session_state, run, lastOk,
         failedEarlier>>

----------------------------------------------------------------------------
(* Bounds of the model *)
MaxPromptLen == 1
MaxStoryLen == 1
SliderReach == 1

(* Program constants: the slider declarations *)
MinLength == 50
MaxLength == 300
DefaultLength == 150
LengthStep == 10
MinCreativity == 5
MaxCreativity == 15
DefaultCreativity == 9
CreativityStep == 1

NoProvider == 0

Chars == {" ", "a"}

Texts(n) == UNION {[1..k -> Chars] : k \in 0..n}

Prompts == Texts(MaxPromptLen)

Stories == Texts(MaxStoryLen)

Errors == {"RuntimeError", "OSError"}

(* Outcomes of building the pipeline: it is built, or pipeline() raises *)
LoadOutcomes == {[ok |-> TRUE, err |-> ""]} \cup {[ok |-> FALSE, err |-> e] : e \in Errors}

(* Outcomes of one call of the pipeline: some text, or an exception *)
GenOutcomes ==
  {[ok |-> TRUE, text |-> t, err |-> ""] : t \in Stories}
    \cup {[ok |-> FALSE, text |-> <<>>, err |-> e] : e \in Errors}

(* What a run can draw: pipeline() is reached only on a cache miss, and the *)
(* provider is reached only by the submit button                           *)
LoadChoices == IF cached = NoProvider THEN LoadOutcomes ELSE {[ok |-> TRUE, err |-> ""]}

NotCalled == [ok |-> TRUE, text |-> <<"a">>, err |-> ""]

NoResult == [kind |-> "none", text |-> <<>>, err |-> ""]

EmptyState == [k \in {} |-> <<>>]

----------------------------------------------------------------------------
(* Python truth value of a str: the empty string is false, any other true *)
Truthy_always(s) == TRUE

Truthy(s) == Len(s) > 0

(* A text made of whitespace only (the empty text included) *)
IsBlank(s) == \A i \in 1..Len(s) : s[i] = " "

(* The values a st.slider(min_value, max_value, step) can hand to the script *)
SliderValues_pastMax(min_value, max_value, step) ==
  {min_value + k * step : k \in 0..(((max_value - min_value) \div step) + 1)}

SliderValues(min_value, max_value, step) ==
  {min_value + k * step : k \in 0..((max_value - min_value) \div step)}

MaxLengthValues == SliderValues(MinLength, MaxLength, LengthStep)

CreativityValues == SliderValues(MinCreativity, MaxCreativity, CreativityStep)

(* The positions the user drags a slider to: those fewer than SliderReach   *)
(* steps away from either end of the slider or from its default            *)
Lowest(values) == CHOOSE v \in values : \A w \in values : v <= w

Highest(values) == CHOOSE v \in values : \A w \in values : v >= w

UserPicks(values, default, step) ==
  {v \in values :
     \E anchor \in {Lowest(values), Highest(values), default} :
       /\ v - anchor < SliderReach * step
       /\ anchor - v < SliderReach * step}

(* @st.cache_resource load_story_generator(): a cached instance is handed  *)
(* back as is; otherwise pipeline() is called, and its result is cached    *)
(* only when it returns (an exception is not cached).                      *)
load_story_generator_nocache(cache, n, outcome) ==
  IF outcome.ok
  THEN [cached |-> n + 1, constructions |-> n + 1, provider |-> n + 1, raised |-> <<>>]
  ELSE [cached |-> cache, constructions |-> n, provider |-> NoProvider,
        raised |-> <<outcome.err>>]

load_story_generator(cache, n, outcome) ==
  IF cache # NoProvider
  THEN [cached |-> cache, constructions |-> n, provider |-> cache, raised |-> <<>>]
  ELSE IF outcome.ok
  THEN [cached |-> n + 1, constructions |-> n + 1, provider |-> n + 1, raised |-> <<>>]
  ELSE [cached |-> cache, constructions |-> n, provider |-> NoProvider,
        raised |-> <<outcome.err>>]

(* try: story_generator = load_story_generator() / except: st.error, st.stop *)
LoadStops_never(ld) == FALSE

LoadStops(ld) == ld.raised # <<>>

(* One call story_generator(prompt, max_length=..., temperature=...) *)
Call(provider, p, ml, cr) ==
  [provider |-> provider, prompt |-> p, max_length |-> ml, temperature |-> cr]

SetStory(ss, t) == ("story" :> t) @@ ss

(* Result of the provider call as the script sees it *)
ResultOf(go) ==
  IF go.ok THEN [kind |-> "text", text |-> go.text, err |-> ""]
  ELSE [kind |-> "error", text |-> <<>>, err |-> go.err]

GenerationError(e) == <<"An error occurred: ", e>>

LoadError(e) == <<"Error: Could not load the story engine. Please refresh. Details: ", e>>

(* No call made: what the generation block leaves behind *)
Skipped(ss, warn) ==
  [session_state |-> ss, calls |-> <<>>, result |-> NoResult, warning |-> warn,
   error |-> <<>>, raised |-> FALSE]

(* The outcome of the try/except around the call *)
Called(provider, p, ml, cr, go, ss) ==
  [session_state |-> IF go.ok THEN SetStory(ss, go.text) ELSE ss,
   calls |-> <<Call(provider, p, ml, cr)>>,
   result |-> ResultOf(go),
   warning |-> FALSE,
   error |-> IF go.ok THEN <<>> ELSE GenerationError(go.err),
   raised |-> FALSE]

(* Variants of the generation block with one slip each *)
Generate_storeError(provider, p, ml, cr, button, go, ss) ==
  IF button
  THEN IF Truthy(p)
       THEN [Called(provider, p, ml, cr, go, ss) EXCEPT
               !.session_state = IF go.ok THEN SetStory(ss, go.text)
                                 ELSE SetStory(ss, GenerationError(go.err))]
       ELSE Skipped(ss, TRUE)
  ELSE Skipped(ss, FALSE)

Generate_noStore(provider, p, ml, cr, button, go, ss) ==
  IF button
  THEN IF Truthy(p)
       THEN [Called(provider, p, ml, cr, go, ss) EXCEPT !.session_state = ss]
       ELSE Skipped(ss, TRUE)
  ELSE Skipped(ss, FALSE)

Generate_clearOnEmpty(provider, p, ml, cr, button, go, ss) ==
  IF button
  THEN IF Truthy(p)
       THEN Called(provider, p, ml, cr, go, ss)
       ELSE Skipped(EmptyState, TRUE)
  ELSE Skipped(ss, FALSE)

Generate_ignoreButton(provider, p, ml, cr, button, go, ss) ==
  IF Truthy(p)
  THEN Called(provider, p, ml, cr, go, ss)
  ELSE Skipped(ss, button)

Generate_uncaught(provider, p, ml, cr, button, go, ss) ==
  IF button
  THEN IF Truthy(p)
       THEN [Called(provider, p, ml, cr, go, ss) EXCEPT !.raised = ~go.ok]
       ELSE Skipped(ss, TRUE)
  ELSE Skipped(ss, FALSE)

(* "if generate_button: if prompt: try ... except ... else: st.warning"    *)
(* raised tells whether an exception leaves the block: except Exception    *)
(* catches whatever the call raises, so none does.                         *)
Generate(provider, p, ml, cr, button, go, ss) ==
  IF button
  THEN IF Truthy(p)
       THEN Called(provider, p, ml, cr, go, ss)
       ELSE Skipped(ss, TRUE)
  ELSE Skipped(ss, FALSE)

(* "if 'story' in st.session_state and st.session_state['story']":         *)
(* the texts put under "Your New Story:", none or one                      *)
Display_noTruthTest(ss) ==
  IF "story" \in DOMAIN ss THEN <<ss["story"]>> ELSE <<>>

Display(ss) ==
  IF "story" \in DOMAIN ss /\ Truthy(ss["story"]) THEN <<ss["story"]>> ELSE <<>>

----------------------------------------------------------------------------
NoRun ==
  [trigger |-> "none", surface |-> FALSE, completed |-> FALSE, generate_button |-> FALSE,
   calls |-> <<>>, result |-> NoResult, warning |-> FALSE, error |-> <<>>, shown |-> <<>>]

Init ==
  /\ cached = NoProvider
  /\ constructions = 0
  /\ max_length = DefaultLength
  /\ creativity = DefaultCreativity
  /\ prompt = <<>>
  /\ session_state = EmptyState
  /\ run = NoRun
  /\ lastOk = <<>>
  /\ failedEarlier = FALSE

(* One execution of the script, with the widget values ml, cr, p and       *)
(* button that the triggering interaction produced.                        *)
ScriptRun(trigger, ml, cr, p, button, lo, go) ==
  LET ld == load_story_generator(cached, constructions, lo) IN
  /\ cached' = ld.cached
  /\ constructions' = ld.constructions
  /\ failedEarlier' = (failedEarlier \/ run.result.kind = "error")
  /\ IF LoadStops(ld)
     THEN /\ run' = [NoRun EXCEPT !.trigger = trigger, !.error = LoadError(ld.raised[1])]
          /\ UNCHANGED <<max_length, creativity, prompt, session_state, lastOk>>
     ELSE LET gen == Generate(ld.provider, p, ml, cr, button, go, session_state) IN
          /\ max_length' = ml
          /\ creativity' = cr
          /\ prompt' = p
          /\ session_state' = gen.session_state
          /\ lastOk' = IF gen.result.kind = "text" THEN <<gen.result.text>> ELSE lastOk
          /\ run' = [trigger |-> trigger,
                     surface |-> TRUE,
                     completed |-> ~gen.raised,
                     generate_button |-> button,
                     calls |-> gen.calls,
                     result |-> gen.result,
                     warning |-> gen.warning,
                     error |-> gen.error,
                     shown |-> IF gen.raised THEN <<>> ELSE Display(gen.session_state)]

(* The browser opens the page: the first run, all widgets at their defaults *)
PageLoad ==
  /\ run.trigger = "none"
  /\ \E lo \in LoadChoices :
       ScriptRun("load", max_length, creativity, prompt, FALSE, lo, NotCalled)

(* A rerun with no widget changed ("Please refresh", the Rerun command) *)
Rerun ==
  /\ run.trigger # "none"
  /\ \E lo \in LoadChoices :
       ScriptRun("rerun", max_length, creativity, prompt, FALSE, lo, NotCalled)

(* The widgets can be used only when the last run rendered them *)
SetMaxLength ==
  /\ run.surface
  /\ \E v \in UserPicks(MaxLengthValues, DefaultLength, LengthStep) \ {max_length},
        lo \in LoadChoices :
       ScriptRun("max_length", v, creativity, prompt, FALSE, lo, NotCalled)

SetCreativity ==
  /\ run.surface
  /\ \E v \in UserPicks(CreativityValues, DefaultCreativity, CreativityStep) \ {creativity},
        lo \in LoadChoices :
       ScriptRun("creativity", max_length, v, prompt, FALSE, lo, NotCalled)

EditPrompt ==
  /\ run.surface
  /\ \E p \in Prompts \ {prompt}, lo \in LoadChoices :
       ScriptRun("prompt", max_length, creativity, p, FALSE, lo, NotCalled)

ClickGenerate ==
  /\ run.surface
  /\ \E lo \in LoadChoices, go \in GenOutcomes :
       ScriptRun("button", max_length, creativity, prompt, TRUE, lo, go)

Next ==
  \/ PageLoad
  \/ Rerun
  \/ SetMaxLength
  \/ SetCreativity
  \/ EditPrompt
  \/ ClickGenerate

Spec == Init /\ [][Next]_vars

----------------------------------------------------------------------------
(* Vocabulary of the properties *)

Submitted == run.generate_button

CalledOnce == Len(run.calls) = 1

NotCalledAtAll == run.calls = <<>>

Succeeded == run.result.kind = "text"

Failed == run.result.kind = "error"

HasStory == "story" \in DOMAIN session_state

(* What the page must show under "Your New Story:" for a stored state ss *)
Redisplay(ss) ==
  IF "story" \in DOMAIN ss /\ ss["story"] # <<>> THEN <<ss["story"]>> ELSE <<>>

----------------------------------------------------------------------------
(* C1 (as written): for every prompt that is empty or made of whitespace   *)
(* only, pressing the submit button yields the validation warning and the  *)
(* provider is not called in that run.                                     *)
C1_BlankPromptRejected ==
  (Submitted /\ IsBlank(prompt)) => (run.warning /\ NotCalledAtAll)

(* C1 (amended): a submission with the empty prompt yields the warning and *)
(* no provider call; a submission with a whitespace-only prompt that is    *)
(* not empty is treated as valid: no warning, and the provider is called   *)
(* with that prompt.                                                       *)
C1_EmptyPromptRejected ==
  /\ (Submitted /\ prompt = <<>>) => (run.warning /\ NotCalledAtAll)
  /\ (Submitted /\ prompt # <<>> /\ IsBlank(prompt)) =>
       (~run.warning /\ CalledOnce /\ run.calls[1].prompt = prompt)

C1_Witness == Submitted /\ prompt = <<>> /\ run.warning /\ session_state = EmptyState

C3_DisplayedIsReturned ==
  (Submitted /\ prompt # <<>>) =>
    /\ CalledOnce
    /\ Succeeded => run.shown = <<run.result.text>>
    /\ Failed => run.error = GenerationError(run.result.err)

(* C3 (amended): every submission with a non-empty prompt calls the        *)
(* provider exactly once in that run with that prompt; a returned text     *)
(* that is not empty is the story displayed at the end of the run, an      *)
(* empty returned text is stored but no story is displayed, and a failure  *)
(* displays the provider's error.                                          *)
C3_DisplayedIsReturnedNonEmpty ==
  (Submitted /\ prompt # <<>>) =>
    /\ CalledOnce
    /\ run.calls[1].prompt = prompt
    /\ (Succeeded /\ run.result.text # <<>>) => run.shown = <<run.result.text>>
    /\ (Succeeded /\ run.result.text = <<>>) =>
         (run.shown = <<>> /\ HasStory /\ session_state["story"] = <<>>)
    /\ Failed => run.error = GenerationError(run.result.err)

C3_Witness ==
  /\ Submitted /\ prompt # <<>> /\ CalledOnce /\ Succeeded
  /\ run.result.text # <<>> /\ run.shown = <<run.result.text>>

(* C4: in every provider call max_length is an integer in [50,300] and the *)
(* temperature is in [0.5,1.5] (5..15 tenths), and both are the current    *)
(* values of the two sliders.                                              *)
C4_ParametersInRange ==
  \A i \in 1..Len(run.calls) :
    /\ run.calls[i].max_length \in 50..300
    /\ run.calls[i].temperature \in 5..15
    /\ run.calls[i].max_length = max_length
    /\ run.calls[i].temperature = creativity

C4_Witness ==
  /\ CalledOnce
  /\ run.calls[1].max_length = 300
  /\ run.calls[1].temperature = 5

(* C5: a submission with the empty prompt leaves the session state as it   *)
(* was before the run, shows again the story that was stored (if any) and  *)
(* makes no provider call.                                                 *)
C5_EmptySubmitChangesNothing ==
  [][(run'.generate_button /\ prompt' = <<>>) =>
       /\ session_state' = session_state
       /\ run'.shown = Redisplay(session_state)
       /\ run'.calls = <<>>]_vars

C5_Witness == Submitted /\ prompt = <<>> /\ run.warning /\ run.shown # <<>>

(* C6: the provider is called only in a run triggered by the submit        *)
(* button: a run caused by anything else (a slider, the prompt text, a     *)
(* rerun of the page) makes no provider call and leaves the stored story   *)
(* as it was.                                                              *)
C6_OnlyButtonGenerates ==
  /\ [](run.calls # <<>> => run.trigger = "button")
  /\ [][run'.trigger # "button" =>
          (run'.calls = <<>> /\ session_state' = session_state)]_vars

C6_Witness ==
  /\ run.trigger \in {"max_length", "creativity", "prompt", "rerun"}
  /\ prompt # <<>>
  /\ HasStory
  /\ NotCalledAtAll

(* C7 (as written): after a submission whose provider call failed the page *)
(* is still complete (controls and output area), and a later submission    *)
(* with a non-empty prompt calls the provider again and, on success,       *)
(* stores and displays its text.                                           *)
C7_FailureThenStoredAndDisplayed ==
  /\ Failed => (run.surface /\ run.completed)
  /\ (failedEarlier /\ Submitted /\ prompt # <<>>) =>
       /\ CalledOnce
       /\ Succeeded => /\ HasStory
                       /\ session_state["story"] = run.result.text
                       /\ run.shown = <<run.result.text>>

(* C7 (amended): after a submission whose provider call failed the page is *)
(* still complete, and a later submission with a non-empty prompt calls    *)
(* the provider again and, on success, stores its text and displays it     *)
(* when it is not empty.                                                   *)
C7_FailureThenStored ==
  /\ Failed => (run.surface /\ run.completed)
  /\ (failedEarlier /\ Submitted /\ prompt # <<>>) =>
       /\ CalledOnce
       /\ Succeeded => /\ HasStory
                       /\ session_state["story"] = run.result.text
                       /\ run.result.text # <<>> => run.shown = <<run.result.text>>

C7_Witness ==
  /\ failedEarlier /\ Submitted /\ Succeeded
  /\ run.result.text # <<>> /\ run.shown = <<run.result.text>>

(* C8: when the provider cannot be loaded the run shows the error and      *)
(* stops before any control is rendered: the controls are never offered    *)
(* and no generation call is made without an available provider.           *)
C8_NoSurfaceWithoutProvider ==
  /\ (run.surface \/ run.calls # <<>>) => cached # NoProvider
  /\ \A i \in 1..Len(run.calls) : run.calls[i].provider # NoProvider
  /\ (run.trigger # "none" /\ cached = NoProvider) =>
       (run.error # <<>> /\ ~run.surface /\ run.shown = <<>>)

C8_Witness == run.trigger = "rerun" /\ cached = NoProvider /\ run.error # <<>>

(* C9: the number of providers constructed in the process never exceeds    *)
(* one, and every run that has a provider and every generation call uses   *)
(* that one instance.                                                      *)
C9_ConstructedOnce ==
  /\ constructions <= 1
  /\ cached \in {NoProvider, 1}
  /\ run.surface => (constructions = 1 /\ cached = 1)
  /\ \A i \in 1..Len(run.calls) : run.calls[i].provider = 1

C9_Witness == constructions = 1 /\ failedEarlier /\ CalledOnce

(* C10: the stored story is absent as long as no provider call succeeded   *)
(* and is otherwise the text returned by the latest successful call; it is *)
(* written only by a successful generation; and a story shown under "Your  *)
(* New Story:" is the stored text, which is then not empty.                *)
C10_StoryIsLatestSuccess ==
  /\ [](/\ (lastOk = <<>>) => ~HasStory
        /\ (lastOk # <<>>) => (HasStory /\ session_state["story"] = lastOk[1])
        /\ (run.shown # <<>>) =>
             /\ HasStory
             /\ run.shown = <<session_state["story"]>>
             /\ session_state["story"] # <<>>)
  /\ [][session_state' # session_state =>
          /\ run'.result.kind = "text"
          /\ session_state' = SetStory(session_state, run'.result.text)]_vars

C10_Witness ==
  /\ run.trigger = "prompt"
  /\ failedEarlier
  /\ lastOk # <<>>
  /\ run.shown = <<lastOk[1]>>

====
